---- MODULE Spec2Model ----
(***************************************************************************)
(* prune_ssh_known_hosts.py: one run of main().  The hosts file is a      *)
(* sequence of raw lines, a line is a sequence of one-character strings,   *)
(* the resolver is the environment (each lookup answers TRUE or FALSE),    *)
(* and standard output is the sequence `out` of printed lines.             *)
(***************************************************************************)
EXTENDS Integers, Sequences, FiniteSets

VARIABLES
    args,                 \* argparse namespace: verbose, duplicates, non_resolving, split_sed
    openOk,               \* environment: does open(filename, 'r') succeed
    file,                 \* the raw lines the iteration `for fline in f` has produced so far
    pc,                   \* position of main(): start, scan, done, exit, crashed
    lineno,               \* main's line counter
    all_entries,          \* dict: trimmed line text -> list of line numbers
    non_resolving_hosts,  \* dict: host token -> line number
    calls,                \* the resolver calls made so far, in order
    out                   \* what was printed on standard output, in order

vars == <<args, openOk, file, pc, lineno, all_entries, non_resolving_hosts, calls, out>>

\* Longest hosts file considered.
MaxLines == 3

\* Characters that str.strip() and str.split() treat as whitespace.
Whitespace == {" ", "\t", "\n"}

\* Characters matched by \d.
Digits == {"0", "1", "2", "3", "4", "5", "6", "7", "8", "9"}

----------------------------------------------------------------------------
\* String functions of the Python runtime, as the program uses them.

RECURSIVE lstrip(_)
lstrip(s) ==
    IF s = <<>> THEN s
    ELSE IF Head(s) \in Whitespace THEN lstrip(Tail(s)) ELSE s

RECURSIVE rstrip(_)
rstrip(s) ==
    IF s = <<>> THEN s
    ELSE IF s[Len(s)] \in Whitespace THEN rstrip(SubSeq(s, 1, Len(s) - 1)) ELSE s

\* fline.strip()
strip(s) == rstrip(lstrip(s))

RECURSIVE split_ws(_, _, _)
split_ws(s, cur, acc) ==
    IF s = <<>> THEN (IF cur = <<>> THEN acc ELSE Append(acc, cur))
    ELSE IF Head(s) \in Whitespace
         THEN split_ws(Tail(s), <<>>, IF cur = <<>> THEN acc ELSE Append(acc, cur))
         ELSE split_ws(Tail(s), Append(cur, Head(s)), acc)

\* fline.split(): fields separated by runs of whitespace, no empty field
split(s) == split_ws(s, <<>>, <<>>)

RECURSIVE split_sep(_, _, _, _)
split_sep(s, sep, cur, acc) ==
    IF s = <<>> THEN Append(acc, cur)
    ELSE IF Head(s) = sep
         THEN split_sep(Tail(s), sep, <<>>, Append(acc, cur))
         ELSE split_sep(Tail(s), sep, Append(cur, Head(s)), acc)

\* host.split(','): fields separated by each comma, empty fields kept
split_on(s, sep) == split_sep(s, sep, <<>>, <<>>)

\* ',' in host
contains(s, c) == \E i \in 1..Len(s) : s[i] = c

RECURSIVE digit_run(_)
\* length of the run of digits at the start of s
digit_run(s) ==
    IF s = <<>> \/ Head(s) \notin Digits THEN 0 ELSE 1 + digit_run(Tail(s))

RECURSIVE match_octets(_, _)
\* re.match of n groups \d{1,3}\. followed by \d{1,3}, anchored at the start only
match_octets(s, n) ==
    LET d == digit_run(s) IN
    IF n = 0 THEN d >= 1
    ELSE /\ d >= 1
         /\ d <= 3
         /\ Len(s) > d
         /\ s[d + 1] = "."
         /\ match_octets(SubSeq(s, d + 2, Len(s)), n - 1)

\* re.match(r"\d{1,3}\.\d{1,3}\.\d{1,3}\.\d{1,3}", host)
match_dotted_quad(host) == match_octets(host, 3)

\* re.match('^$', fline)
match_blank(fline) == fline = <<>>

\* re.match('^\s*#', fline)
match_comment(fline) ==
    LET rest == lstrip(fline) IN rest # <<>> /\ Head(rest) = "#"

\* the line as the loop body sees it: the raw line with its newline, stripped
trimmed(raw) == strip(Append(raw, "\n"))

\* the two `continue` branches of the scan loop
is_skipped(fline) == match_blank(fline) \/ match_comment(fline)

----------------------------------------------------------------------------
\* The hosts files considered: every sequence of at most MaxLines raw lines of one
\* of two sets.  The iteration hands them to the loop one at a time.

\* lines that differ in what the reports do with them
RawLines == {
    << " " >>,                                                   \* blank
    << " ", "#", "c" >>,                                         \* comment
    << "a", " ", "k", " ", "k" >>,                               \* hostname
    << "a", " ", "j", " ", "k" >>,                               \* same host, other key type
    << "b", ",", ":", ":", "1", " ", "k", " ", "k" >>,           \* hostname,ipaddr
    << "1", ".", "1", ".", "1", ".", "1", " ", "k", " ", "k" >>, \* IPv4 address
    << "a", " ", "k" >>,                                         \* two fields only
    << "a", ",", "b", ",", "c", " ", "k", " ", "k" >>            \* host token with two commas
}

\* lines that differ in the kind of their host token
HostLines == {
    << " " >>,                                                   \* blank
    << "a", " ", "k", " ", "k" >>,                               \* hostname
    << "b", ",", ":", ":", "1", " ", "k", " ", "k" >>,           \* hostname,ipaddr
    << "1", ".", "1", ".", "1", ".", "1", " ", "k", " ", "k" >>, \* IPv4 address
    << ":", ":", "1", " ", "k", " ", "k" >>,                     \* IPv6 address
    << "a", " ", "k" >>,                                         \* two fields only
    << "a", ",", "b", ",", "c", " ", "k", " ", "k" >>            \* host token with two commas
}

AllLines == RawLines \cup HostLines

Args == [verbose : BOOLEAN, duplicates : BOOLEAN, non_resolving : BOOLEAN, split_sed : BOOLEAN]

----------------------------------------------------------------------------
\* Printed lines.  `by` names the function that printed the line; `linenos` are
\* the line numbers of the sed substitutions the line holds, in order.

Printed(kind, by, linenos) == [kind |-> kind, by |-> by, linenos |-> linenos]

\* print "Could not open hostsfile: %s"
open_error == Printed("error", "main", <<>>)

\* a line that starts with "# ", printed under args.verbose
comment(by) == Printed("comment", by, <<>>)

\* print "sed '%ds/^\(.*\)/##  \\1/' %s" % (lineno, filename)
sed_single(by, n) == Printed("sed", by, <<n>>)

\* print "sed %s %s" % (sed_str, filename), sed_str holding one -e per line number
sed_merged(by, sed_str) == Printed("sed_e", by, sed_str)

RECURSIVE concat(_)
concat(ss) == IF ss = <<>> THEN <<>> ELSE Head(ss) \o concat(Tail(ss))

RECURSIVE orders(_)
\* every sequence that holds each element of K once
orders(K) ==
    IF K = {} THEN { <<>> }
    ELSE UNION { { <<k>> \o o : o \in orders(K \ {k}) } : k \in K }

\* the orders in which iterating a dict may produce its keys
key_orders(d) == orders(DOMAIN d)

----------------------------------------------------------------------------
\* main(): the scan loop's bookkeeping.

\* if fline in all_entries: all_entries[fline].append(lineno)
\* else: all_entries[fline] = [lineno]
add_entry(entries, fline, n) ==
    [t \in DOMAIN entries \cup {fline} |->
        IF t = fline
        THEN (IF fline \in DOMAIN entries THEN Append(entries[fline], n) ELSE <<n>>)
        ELSE entries[t]]

\* a tuple assignment of n names from the list `parts` raises ValueError
unpack_fails(parts, n) == Len(parts) # n

\* (host, key_type, key) = fline.split()
host_of(fline) == split(fline)[1]

\* the if/elif chain on the host token: which resolver function is called, on what
lookup(host) ==
    IF contains(host, ",")
    THEN [fn |-> "gethostbyname", arg |-> split_on(host, ",")[1]]
    ELSE IF contains(host, ":")
    THEN [fn |-> "gethostbyaddr", arg |-> host]
    ELSE IF match_dotted_quad(host)
    THEN [fn |-> "gethostbyaddr", arg |-> host]
    ELSE [fn |-> "gethostbyname", arg |-> host]

\* the (hostname, ipaddr) = host.split(',') of the first branch raises ValueError
host_unpack_fails(host) == contains(host, ",") /\ unpack_fails(split_on(host, ","), 2)

\* resolve_hostname / resolve_ipaddr: one socket call, True unless socket.error
\* `at` is the position in the file of the line the loop is on
resolver_call(at, host, res) ==
    [at |-> at, host |-> host, fn |-> lookup(host).fn, arg |-> lookup(host).arg, res |-> res]

\* record_result with the test inverted: the line of a lookup that succeeded is recorded
record_result_inverted(hosts, host, n, res) ==
    IF ~res THEN hosts
    ELSE [h \in DOMAIN hosts \cup {host} |-> IF h = host THEN n ELSE hosts[h]]

\* record_result that keeps the first failing line of a host token
record_result_keep_first(hosts, host, n, res) ==
    IF res \/ host \in DOMAIN hosts THEN hosts
    ELSE [h \in DOMAIN hosts \cup {host} |-> IF h = host THEN n ELSE hosts[h]]

\* if not res: non_resolving_hosts[host] = lineno
record_result(hosts, host, n, res) ==
    IF res THEN hosts
    ELSE [h \in DOMAIN hosts \cup {host} |-> IF h = host THEN n ELSE hosts[h]]

----------------------------------------------------------------------------
\* The report functions.  `order` is the order in which the dict yields its keys.

\* duplicate_linenos without the slice: the first occurrence is reported too
duplicate_linenos_all(linenos) == linenos

\* for lineno in linenos[1:]
duplicate_linenos(linenos) == Tail(linenos)

\* what the body of print_duplicates' loop prints for one key
dup_printed(entries, fline) ==
    IF Len(entries[fline]) > 1
    THEN (IF args.verbose /\ args.split_sed THEN <<comment("print_duplicates")>> ELSE <<>>)
         \o (IF args.split_sed
             THEN [i \in 1..Len(duplicate_linenos(entries[fline])) |->
                      sed_single("print_duplicates", duplicate_linenos(entries[fline])[i])]
             ELSE <<>>)
    ELSE <<>>

\* what the body of print_duplicates' loop appends to sed_str for one key
dup_sed_str(entries, fline) ==
    IF Len(entries[fline]) > 1 /\ ~args.split_sed
    THEN duplicate_linenos(entries[fline])
    ELSE <<>>

\* print_duplicates without the test `if sed_str`
print_duplicates_unchecked(entries, order) ==
    LET sed_str == concat([i \in 1..Len(order) |-> dup_sed_str(entries, order[i])]) IN
    (IF args.verbose THEN <<comment("print_duplicates")>> ELSE <<>>)
    \o concat([i \in 1..Len(order) |-> dup_printed(entries, order[i])])
    \o (IF ~args.split_sed
        THEN <<sed_merged("print_duplicates", sed_str)>>
        ELSE <<>>)

print_duplicates(entries, order) ==
    LET sed_str == concat([i \in 1..Len(order) |-> dup_sed_str(entries, order[i])]) IN
    (IF args.verbose THEN <<comment("print_duplicates")>> ELSE <<>>)
    \o concat([i \in 1..Len(order) |-> dup_printed(entries, order[i])])
    \o (IF sed_str # <<>> /\ ~args.split_sed
        THEN <<sed_merged("print_duplicates", sed_str)>>
        ELSE <<>>)

\* what the body of print_non_resolving's loop prints for one key
nr_printed(hosts, host) ==
    (IF args.verbose /\ args.split_sed THEN <<comment("print_non_resolving")>> ELSE <<>>)
    \o (IF args.split_sed THEN <<sed_single("print_non_resolving", hosts[host])>> ELSE <<>>)

\* what the body of print_non_resolving's loop appends to sed_str for one key
nr_sed_str(hosts, host) == IF args.split_sed THEN <<>> ELSE <<hosts[host]>>

\* print_non_resolving that also accumulates sed_str and prints it in split mode
print_non_resolving_unsplit(hosts, order) ==
    LET sed_str == [i \in 1..Len(order) |-> hosts[order[i]]] IN
    (IF args.verbose THEN <<comment("print_non_resolving")>> ELSE <<>>)
    \o concat([i \in 1..Len(order) |-> nr_printed(hosts, order[i])])
    \o (IF sed_str # <<>>
        THEN <<sed_merged("print_non_resolving", sed_str)>>
        ELSE <<>>)

print_non_resolving(hosts, order) ==
    LET sed_str == concat([i \in 1..Len(order) |-> nr_sed_str(hosts, order[i])]) IN
    (IF args.verbose THEN <<comment("print_non_resolving")>> ELSE <<>>)
    \o concat([i \in 1..Len(order) |-> nr_printed(hosts, order[i])])
    \o (IF sed_str # <<>> /\ ~args.split_sed
        THEN <<sed_merged("print_non_resolving", sed_str)>>
        ELSE <<>>)

----------------------------------------------------------------------------
\* The run.

Init ==
    /\ args \in Args
    /\ openOk \in BOOLEAN
    /\ file = <<>>
    /\ pc = "start"
    /\ lineno = 0
    /\ all_entries = <<>>
    /\ non_resolving_hosts = <<>>
    /\ calls = <<>>
    /\ out = <<>>

\* open(filename, 'r') succeeds; the verbose header; lineno = 0
OpenFile ==
    /\ pc = "start"
    /\ openOk
    /\ out' = out \o (IF args.verbose THEN <<comment("main")>> ELSE <<>>)
    /\ lineno' = 0
    /\ pc' = "scan"
    /\ UNCHANGED <<args, openOk, file, all_entries, non_resolving_hosts, calls>>

\* OpenFails without the `return None`: the reason is printed and main goes on
OpenFails_no_return ==
    /\ pc = "start"
    /\ ~openOk
    /\ out' = Append(out, open_error)
    /\ pc' = "scan"
    /\ UNCHANGED <<args, openOk, file, lineno, all_entries, non_resolving_hosts, calls>>

\* open raises IOError: print the reason, return None
OpenFails ==
    /\ pc = "start"
    /\ ~openOk
    /\ out' = Append(out, open_error)
    /\ pc' = "exit"
    /\ UNCHANGED <<args, openOk, file, lineno, all_entries, non_resolving_hosts, calls>>

\* what the loop body computes from a raw line before it touches the dicts:
\* the stripped line, the two `continue` tests, the fields and the host token
parsed ==
    [raw \in AllLines |->
        LET fline == trimmed(raw) IN
        [fline |-> fline,
         skipped |-> is_skipped(fline),
         bad_fields |-> ~is_skipped(fline) /\ unpack_fails(split(fline), 3),
         host |-> IF is_skipped(fline) \/ unpack_fails(split(fline), 3)
                  THEN <<>> ELSE host_of(fline)]]

\* lineno += 1
next_lineno(n) == n + 1

\* SkipLine with the increment placed after the two `continue` tests
SkipLine_uncounted(raw) ==
    /\ pc = "scan"
    /\ Len(file) < MaxLines
    /\ parsed[raw].skipped
    /\ file' = Append(file, raw)
    /\ UNCHANGED <<args, openOk, pc, lineno, all_entries, non_resolving_hosts, calls, out>>

\* one iteration of the loop on the line `raw`, ending in `continue`
SkipLine(raw) ==
    /\ pc = "scan"
    /\ Len(file) < MaxLines
    /\ parsed[raw].skipped
    /\ file' = Append(file, raw)
    /\ lineno' = next_lineno(lineno)
    /\ UNCHANGED <<args, openOk, pc, all_entries, non_resolving_hosts, calls, out>>

\* one full iteration of the loop on the line `raw`; the resolver answers res
ScanLine(raw, res) ==
    /\ pc = "scan"
    /\ Len(file) < MaxLines
    /\ LET fline == parsed[raw].fline
           host == parsed[raw].host
           n == next_lineno(lineno)
       IN  /\ ~parsed[raw].skipped
           /\ ~parsed[raw].bad_fields
           /\ ~host_unpack_fails(host)
           /\ all_entries' = add_entry(all_entries, fline, n)
           /\ calls' = Append(calls, resolver_call(Len(file) + 1, host, res))
           /\ non_resolving_hosts' = record_result(non_resolving_hosts, host, n, res)
           /\ lineno' = n
    /\ file' = Append(file, raw)
    /\ UNCHANGED <<args, openOk, pc, out>>

\* FieldsCrash with the ValueError caught and the line passed over
FieldsCrash_caught(raw) ==
    /\ pc = "scan"
    /\ Len(file) < MaxLines
    /\ LET fline == parsed[raw].fline
           n == next_lineno(lineno)
       IN  /\ ~parsed[raw].skipped
           /\ parsed[raw].bad_fields
           /\ all_entries' = add_entry(all_entries, fline, n)
           /\ lineno' = n
    /\ file' = Append(file, raw)
    /\ UNCHANGED <<args, openOk, pc, non_resolving_hosts, calls, out>>

\* an iteration in which (host, key_type, key) = fline.split() raises ValueError
FieldsCrash(raw) ==
    /\ pc = "scan"
    /\ Len(file) < MaxLines
    /\ LET fline == parsed[raw].fline
           n == next_lineno(lineno)
       IN  /\ ~parsed[raw].skipped
           /\ parsed[raw].bad_fields
           /\ all_entries' = add_entry(all_entries, fline, n)
           /\ lineno' = n
    /\ file' = Append(file, raw)
    /\ pc' = "crashed"
    /\ UNCHANGED <<args, openOk, non_resolving_hosts, calls, out>>

\* an iteration in which (hostname, ipaddr) = host.split(',') raises ValueError
HostCrash(raw) ==
    /\ pc = "scan"
    /\ Len(file) < MaxLines
    /\ LET fline == parsed[raw].fline
           n == next_lineno(lineno)
       IN  /\ ~parsed[raw].skipped
           /\ ~parsed[raw].bad_fields
           /\ host_unpack_fails(parsed[raw].host)
           /\ all_entries' = add_entry(all_entries, fline, n)
           /\ lineno' = n
    /\ file' = Append(file, raw)
    /\ pc' = "crashed"
    /\ UNCHANGED <<args, openOk, non_resolving_hosts, calls, out>>

\* what `if args.duplicates: print_duplicates(all_entries, filename)` may print,
\* one output for each order in which the dict may yield its keys
duplicates_report ==
    IF args.duplicates
    THEN { print_duplicates(all_entries, order) : order \in key_orders(all_entries) }
    ELSE { <<>> }

\* non_resolving_report without the test of args.non_resolving
non_resolving_report_unasked ==
    { print_non_resolving(non_resolving_hosts, order) :
          order \in key_orders(non_resolving_hosts) }

\* what `if args.non_resolving: print_non_resolving(non_resolving_hosts, filename)` may print
non_resolving_report ==
    IF args.non_resolving
    THEN { print_non_resolving(non_resolving_hosts, order) :
               order \in key_orders(non_resolving_hosts) }
    ELSE { <<>> }

\* the file has no further line: f.close(), then the requested reports
Report ==
    /\ pc = "scan"
    /\ \E d \in duplicates_report, n \in non_resolving_report : out' = out \o d \o n
    /\ pc' = "done"
    /\ UNCHANGED <<args, openOk, file, lineno, all_entries, non_resolving_hosts, calls>>

\* a step of the run on a file whose lines are drawn from L
Step(L) ==
    \/ OpenFile
    \/ OpenFails
    \/ \E raw \in L : SkipLine(raw)
    \/ \E raw \in L, res \in BOOLEAN : ScanLine(raw, res)
    \/ \E raw \in L : FieldsCrash(raw)
    \/ \E raw \in L : HostCrash(raw)
    \/ Report

Next == Step(RawLines)

Spec == Init /\ [][Next]_vars

NextHosts == Step(HostLines)

SpecHosts == Init /\ [][NextHosts]_vars

----------------------------------------------------------------------------
\* The hosts file as its reader sees it, stated on the raw lines.

Lines == 1..Len(file)

Ink(raw) == { k \in 1..Len(raw) : raw[k] \notin Whitespace }

Min(S) == CHOOSE x \in S : \A y \in S : x <= y
Max(S) == CHOOSE x \in S : \A y \in S : x >= y

\* the line holds nothing but whitespace
IsBlank(raw) == Ink(raw) = {}

\* the first character of the line that is not whitespace is '#'
IsComment(raw) == ~IsBlank(raw) /\ raw[Min(Ink(raw))] = "#"

\* the text of the line between its first and its last non-whitespace character
TextOf(raw) == IF IsBlank(raw) THEN <<>> ELSE SubSeq(raw, Min(Ink(raw)), Max(Ink(raw)))

\* the number of whitespace-separated fields of the line
FieldsOf(raw) ==
    Cardinality({ k \in Ink(raw) : k = 1 \/ raw[k - 1] \in Whitespace })

\* the first whitespace-separated field of the line
TokenOf(raw) ==
    LET t == TextOf(raw)
        gaps == { k \in 1..Len(t) : t[k] \in Whitespace }
    IN  IF gaps = {} THEN t ELSE SubSeq(t, 1, Min(gaps) - 1)

\* what the reader sees of each raw line
Seen ==
    [raw \in AllLines |->
        [entry |-> ~IsBlank(raw) /\ ~IsComment(raw),
         text |-> TextOf(raw),
         fields |-> FieldsOf(raw),
         host |-> TokenOf(raw)]]

\* line i is an entry: neither blank nor a comment
Retained(i) == i \in Lines /\ Seen[file[i]].entry

LineText(raw) == Seen[raw].text

FieldCount(raw) == Seen[raw].fields

\* the host token of an entry
HostToken(raw) == Seen[raw].host

Commas(h) == { k \in 1..Len(h) : h[k] = "," }

\* the lines that repeat the text of an earlier entry
DuplicateCandidates ==
    { i \in Lines : Retained(i) /\ \E j \in 1..(i - 1) :
                        Retained(j) /\ LineText(file[j]) = LineText(file[i]) }

\* the lines on which the lookup for host token h failed
FailedAt(h) == { calls[k].at : k \in { k \in 1..Len(calls) : calls[k].host = h /\ ~calls[k].res } }

HostTokens == { HostToken(file[i]) : i \in { i \in Lines : Retained(i) } }

\* for each host token whose lookup failed, the last line on which it failed
NonResolvingCandidates == { Max(FailedAt(h)) : h \in { h \in HostTokens : FailedAt(h) # {} } }

\* the line numbers of the sed substitutions printed by the function `by`, in order
SedLinenos(by) ==
    LET ByIt(e) == e.kind \in {"sed", "sed_e"} /\ e.by = by
        sel == SelectSeq(out, ByIt)
    IN  concat([k \in 1..Len(sel) |-> sel[k].linenos])

\* the printed lines of a kind
PrintedOf(kind) == { k \in 1..Len(out) : out[k].kind = kind }

Range(s) == { s[k] : k \in 1..Len(s) }

NoRepeat(s) == \A j, k \in 1..Len(s) : j # k => s[j] # s[k]

RECURSIVE Ascending(_)
\* the elements of a set of numbers in increasing order
Ascending(S) == IF S = {} THEN <<>> ELSE <<Min(S)>> \o Ascending(S \ {Min(S)})

----------------------------------------------------------------------------
\* C1: when a run with --duplicates has printed its reports, then for every text
\* of an entry the duplicates report holds, in increasing order, exactly the line
\* numbers of the occurrences of that text after the first one (none when the text
\* occurs once, never the first occurrence), and it holds no other line number.
C1_DuplicatesAllButFirst ==
    (pc = "done" /\ args.duplicates) =>
        LET emitted == SedLinenos("print_duplicates") IN
        /\ \A k \in 1..Len(emitted) : Retained(emitted[k])
        /\ \A i \in Lines : Retained(i) =>
               LET occ == { j \in Lines : Retained(j) /\ LineText(file[j]) = LineText(file[i]) }
                   IsOcc(n) == n \in occ
               IN  SelectSeq(emitted, IsOcc) = Ascending(occ \ {Min(occ)})

\* a text on three lines next to nothing else: two candidates, lines 2 and 3
C1_Witness ==
    /\ pc = "done"
    /\ args.duplicates
    /\ Len(file) = 3
    /\ \A i \in Lines : Retained(i) /\ LineText(file[i]) = LineText(file[1])
    /\ SedLinenos("print_duplicates") = <<2, 3>>

\* C2: when the non-resolving report has been printed, a host token whose lookup
\* failed on some line has exactly one candidate in it, the last line on which its
\* lookup failed; a host token whose lookup never failed has none.
C2_LastFailingLinePerToken ==
    (pc = "done" /\ args.non_resolving) =>
        LET emitted == SedLinenos("print_non_resolving") IN
        /\ \A k \in 1..Len(emitted) : Retained(emitted[k])
        /\ \A h \in HostTokens :
               LET mine == { k \in 1..Len(emitted) : HostToken(file[emitted[k]]) = h } IN
               IF FailedAt(h) = {}
               THEN mine = {}
               ELSE /\ Cardinality(mine) = 1
                    /\ \A k \in mine : emitted[k] = Max(FailedAt(h))

\* the same token fails on two lines and resolves on no later one
C2_Witness ==
    /\ pc = "done"
    /\ args.non_resolving
    /\ \E h \in HostTokens :
           /\ Cardinality(FailedAt(h)) = 2
           /\ Max(FailedAt(h)) \in Range(SedLinenos("print_non_resolving"))
    /\ \E h \in HostTokens : FailedAt(h) = {}

\* C3: at every point of the scan, every line number held by the duplicate index
\* or the non-resolving index is the position in the file of an entry (a line that
\* is neither blank nor a comment) with that text or host token, no lookup was made
\* for a blank or comment line, and the line counter has counted every line read,
\* blank and comment lines included.
C3_SkippedLinesOnlyCount ==
    /\ \A t \in DOMAIN all_entries : \A k \in 1..Len(all_entries[t]) :
           /\ Retained(all_entries[t][k])
           /\ LineText(file[all_entries[t][k]]) = t
    /\ \A h \in DOMAIN non_resolving_hosts :
           /\ Retained(non_resolving_hosts[h])
           /\ HostToken(file[non_resolving_hosts[h]]) = h
    /\ \A k \in 1..Len(calls) : Retained(calls[k].at)
    /\ \A i \in Lines : ~Retained(i) =>
           /\ \A k \in 1..Len(calls) : calls[k].at # i
           /\ \A t \in DOMAIN all_entries : i \notin Range(all_entries[t])
           /\ \A h \in DOMAIN non_resolving_hosts : non_resolving_hosts[h] # i
    /\ lineno = Len(file)

\* a blank line, then a comment, then an entry whose lookup fails: it is line 3
C3_Witness ==
    /\ pc = "scan"
    /\ Len(file) = 3
    /\ IsBlank(file[1])
    /\ IsComment(file[2])
    /\ \E t \in DOMAIN all_entries : all_entries[t] = <<3>>
    /\ \E h \in DOMAIN non_resolving_hosts : non_resolving_hosts[h] = 3

\* the candidates of a report, when the report is asked for
CandidatesOf(by) ==
    IF by = "print_duplicates"
    THEN (IF args.duplicates THEN DuplicateCandidates ELSE {})
    ELSE (IF args.non_resolving THEN NonResolvingCandidates ELSE {})

Reports == {"print_duplicates", "print_non_resolving"}

\* the printed lines of a kind printed by a report
PrintedBy(kind, by) == { k \in PrintedOf(kind) : out[k].by = by }

C6_NoReportNoSed ==
    (~args.duplicates /\ ~args.non_resolving) =>
        /\ PrintedOf("sed") = {}
        /\ PrintedOf("sed_e") = {}
        /\ openOk => \A k \in 1..Len(out) : out[k].kind = "comment" /\ args.verbose
        /\ (openOk /\ ~args.verbose) => out = <<>>

\* the scan recorded a duplicate and a non-resolving host, and the run is over
C6_Witness ==
    /\ pc = "done"
    /\ ~args.duplicates
    /\ ~args.non_resolving
    /\ DuplicateCandidates # {}
    /\ NonResolvingCandidates # {}
    /\ \E t \in DOMAIN all_entries : Len(all_entries[t]) > 1
    /\ DOMAIN non_resolving_hosts # {}

\* the host token starts with four groups of one to three digits separated by dots
IsDottedQuad(h) ==
    \E a, b, c, d \in 1..3 :
        /\ Len(h) >= a + b + c + d + 3
        /\ \A k \in 1..(a + b + c + d + 3) :
               IF k \in {a + 1, a + b + 2, a + b + c + 3}
               THEN h[k] = "."
               ELSE h[k] \in Digits

\* the lookup the classification rules prescribe for a host token
RuleFor(h) ==
    IF Commas(h) # {}
    THEN [fn |-> "gethostbyname", arg |-> SubSeq(h, 1, Min(Commas(h)) - 1)]
    ELSE IF \E k \in 1..Len(h) : h[k] = ":"
    THEN [fn |-> "gethostbyaddr", arg |-> h]
    ELSE IF IsDottedQuad(h)
    THEN [fn |-> "gethostbyaddr", arg |-> h]
    ELSE [fn |-> "gethostbyname", arg |-> h]

\* C7, as claimed, for the entries of three fields: each entry read so far has
\* caused exactly one lookup, the one the first matching rule prescribes for its
\* host token (comma: forward lookup of the part before the comma; colon: reverse
\* lookup; dotted quad: reverse lookup; otherwise forward lookup).
C7_OneLookupByFirstRule ==
    \A i \in Lines : (Retained(i) /\ FieldCount(file[i]) = 3) =>
        LET mine == { k \in 1..Len(calls) : calls[k].at = i } IN
        /\ Cardinality(mine) = 1
        /\ \A k \in mine :
               /\ calls[k].host = HostToken(file[i])
               /\ calls[k].fn = RuleFor(HostToken(file[i])).fn
               /\ calls[k].arg = RuleFor(HostToken(file[i])).arg

\* C8: when the hosts file cannot be opened, no line is read, no lookup is made,
\* both indexes stay empty, and all the run prints, under any options, is the
\* failure reason, after which it is over.
C8_OpenFailureStopsRun ==
    ~openOk =>
        /\ file = <<>>
        /\ lineno = 0
        /\ calls = <<>>
        /\ DOMAIN all_entries = {}
        /\ DOMAIN non_resolving_hosts = {}
        /\ pc \in {"start", "exit"}
        /\ pc = "start" => out = <<>>
        /\ pc = "exit" => out = <<open_error>>

\* the run has ended on the open failure with every option given
C8_Witness ==
    /\ ~openOk
    /\ pc = "exit"
    /\ args.verbose /\ args.duplicates /\ args.non_resolving /\ args.split_sed
    /\ out = <<open_error>>

\* C9: an entry that does not split into exactly three fields is the last line
\* the run reads: the run has ended there, the line number of that line is the
\* last one of its text in the duplicate index, no lookup was made for it, and no
\* sed command and no report header has been printed.
C9_MalformedLineAborts ==
    \A i \in Lines : (Retained(i) /\ FieldCount(file[i]) # 3) =>
        /\ pc = "crashed"
        /\ i = Len(file)
        /\ LineText(file[i]) \in DOMAIN all_entries
        /\ all_entries[LineText(file[i])][Len(all_entries[LineText(file[i])])] = i
        /\ \A k \in 1..Len(calls) : calls[k].at # i
        /\ PrintedOf("sed") = {}
        /\ PrintedOf("sed_e") = {}
        /\ \A k \in 1..Len(out) : out[k].by = "main"

\* both reports are asked for, lines 1 and 2 are duplicates whose host does not
\* resolve, and line 3 has two fields
C9_Witness ==
    /\ pc = "crashed"
    /\ args.duplicates
    /\ args.non_resolving
    /\ Len(file) = 3
    /\ FieldCount(file[3]) = 2
    /\ DuplicateCandidates = {2}
    /\ NonResolvingCandidates = {2}
    /\ PrintedOf("sed") \cup PrintedOf("sed_e") = {}

\* every lookup for one host token got the same answer
ConsistentAnswers ==
    \A j, k \in 1..Len(calls) : calls[j].host = calls[k].host => calls[j].res = calls[k].res

\* the first occurrences of the texts that occur again later in the file
Canonical ==
    { i \in Lines : /\ Retained(i)
                    /\ i \notin DuplicateCandidates
                    /\ \E j \in DuplicateCandidates : LineText(file[j]) = LineText(file[i]) }

\* C10: in a run with --duplicates and --non_resolving in which every lookup for
\* one host token got the same answer, no sed command names the first occurrence
\* of a text that occurs again, and once the reports are printed every later
\* occurrence and every last failing line of a host token is named.
C10_CanonicalNeverCandidate ==
    (args.duplicates /\ args.non_resolving /\ ConsistentAnswers) =>
        LET named == Range(SedLinenos("print_duplicates"))
                       \cup Range(SedLinenos("print_non_resolving")) IN
        /\ named \cap Canonical = {}
        /\ pc = "done" => DuplicateCandidates \cup NonResolvingCandidates \subseteq named

\* lines 1 and 3 are the same entry, whose host does not resolve, and the host of
\* line 2 does not resolve either: lines 3 and 2 are named, line 1 is not
C10_Witness ==
    /\ pc = "done"
    /\ args.duplicates
    /\ args.non_resolving
    /\ ConsistentAnswers
    /\ Canonical = {1}
    /\ FailedAt(HostToken(file[1])) = {1, 3}
    /\ SedLinenos("print_duplicates") = <<3>>
    /\ Range(SedLinenos("print_non_resolving")) = {2, 3}

====
